---- MODULE Spec2Model ----
(***************************************************************************)
(* A model of docs/examples/ex_2d.ipynb: the function ham_heis_2D (cell 1) *)
(* and the notebook's cells 2..12 that call it and build the site-resolved *)
(* grids.  Python lists and tuples are sequences (index k of Python is     *)
(* index k + 1 here); a site is the tuple <<row, column>>, 0-based as in   *)
(* the source.  Calls into the external library (ikron, expec,             *)
(* partial_trace, purify, mutinf, correlation) are records of their        *)
(* arguments: the library itself is not part of this repository.           *)
(***************************************************************************)
EXTENDS Integers, Sequences, FiniteSets, TLC

\* ------------------------------------------------------------------ bounds
MaxN == 4
MaxM == 5

\* values the coupling j and the field bz are drawn from (bz = 0 is the default 0.0)
JVals == {1, 2}
BzVals == {-1, 0, 1}

\* ------------------------------------------------- notebook literals (cells)
\* cell 2: n, m = 4, 5
NbN == 4
NbM == 5
\* cell 4: the site (1, 2) the field is added on
FieldSite == <<1, 2>>
\* another site in the place of cell 9's target
TargetSiteOther == <<2, 1>>
\* cell 9: target = (1, 2)
TargetSite == <<1, 2>>

VARIABLES
    cell,       \* execution count of the last code cell that has run
    pc,         \* position inside ham_heis_2D, or "idle" between cells
    n, m, j, bz, cyclic, sparse,    \* the parameters of ham_heis_2D
    dims,       \* ham_heis_2D's local dims
    sites,      \* ham_heis_2D's local sites
    gen,        \* gen_pairs' frame: position in sites and its own loop variables i, j
    pairs,      \* what gen_pairs has yielded so far, in order
    pairs_ss,   \* the tuple pairs_ss
    H,          \* the terms sum(all_terms) has added so far, in order
    ret,        \* the value ham_heis_2D returned
    g,          \* the notebook's globals n, m, dims, H, gs, target
    names,      \* the global names defined so far
    out,        \* the lines cell 2 printed
    Sz_ij, m_ij, rho_ab_ij, mi_ij, cy_ij,   \* the grids of cells 7, 8, 9, 10, 12
    notebook,   \* which notebook the kernel runs: "ex_2d", "torch", or "none"
    tn,         \* the globals of ex_torch_optimize_pbc_mps.ipynb
    tpc         \* position inside that notebook's cell 5, or "idle" between cells

fvars == <<pc, n, m, j, bz, cyclic, sparse, dims, sites, gen, pairs, pairs_ss, H, ret>>
gridvars == <<Sz_ij, m_ij, rho_ab_ij, mi_ij, cy_ij>>
tvars == <<notebook, tn, tpc>>
nbvars == <<cell, g, names, out, Sz_ij, m_ij, rho_ab_ij, mi_ij, cy_ij, notebook, tn, tpc>>
vars == <<cell, pc, n, m, j, bz, cyclic, sparse, dims, sites, gen, pairs, pairs_ss,
          H, ret, g, names, out, Sz_ij, m_ij, rho_ab_ij, mi_ij, cy_ij, notebook, tn, tpc>>

\* ------------------------------------------------------ Python list helpers
\* range(k) as a list
Range(k) == [x \in 1..k |-> x - 1]

\* lst * k : k copies of lst, one after the other
Repeat(lst, k) == [x \in 1..(Len(lst) * k) |-> lst[((x - 1) % Len(lst)) + 1]]

\* zip(A, B) in the place of itertools.product(A, B)
ProductZip(A, B) ==
    [k \in 1..(IF Len(A) < Len(B) THEN Len(A) ELSE Len(B)) |-> <<A[k], B[k]>>]

\* tuple(itertools.product(A, B)): every a of A in order, with every b of B in order
Product(A, B) ==
    [k \in 1..(Len(A) * Len(B)) |->
        <<A[((k - 1) \div Len(B)) + 1], B[((k - 1) % Len(B)) + 1]>>]

\* itertools.chain(A, B)
Chain(A, B) == A \o B

\* ------------------------------------------------------------ ham_heis_2D
\* [[2] * n] * m: the two sizes exchanged
MakeDimsSwapped(nn, mm) == Repeat(<<Repeat(<<2>>, nn)>>, mm)

\* dims = [[2] * m] * n
MakeDims(nn, mm) == Repeat(<<Repeat(<<2>>, mm)>>, nn)

\* sites = tuple(itertools.product(range(n), range(m)))
MakeSites(nn, mm) == Product(Range(nn), Range(mm))

\* i + 1 and j + 1 with the modulus forgotten
WrapNoMod(x, size) == x + 1

\* above, right = (i + 1) % n, (j + 1) % m
Wrap(x, size) == (x + 1) % size

\* the wraparound test forgotten
KeepPairAlways(cyc, coord) == TRUE

\* "if cyclic or above != 0", "if cyclic or right != 0"
KeepPair(cyc, coord) == cyc \/ coord # 0

\* the second "if" written as "elif"
GenPairsBodyElif(site, nn, mm, cyc) ==
    LET i == site[1]
        jj == site[2]
        above == (i + 1) % nn
        right == (jj + 1) % mm
    IN  IF cyc \/ above # 0 THEN << <<site, <<above, jj>>>> >>
        ELSE IF cyc \/ right # 0 THEN << <<site, <<i, right>>>> >>
        ELSE <<>>

\* one iteration of gen_pairs' loop at site (i, jj): the pairs it yields, in order
GenPairsBody(site, nn, mm, cyc) ==
    LET i == site[1]
        jj == site[2]
        above == Wrap(i, nn)
        right == Wrap(jj, mm)
    IN  (IF KeepPair(cyc, above) THEN << <<site, <<above, jj>>>> >> ELSE <<>>)
        \o (IF KeepPair(cyc, right) THEN << <<site, <<i, right>>>> >> ELSE <<>>)

\* the directions 'xyz'
Directions == <<"x", "y", "z">>

\* interactions(pair_s): ikron(j * Sxyz, dims, inds=pair)
interactions(pair_s, coupling) ==
    [kind |-> "interaction", coef |-> coupling, op |-> pair_s[2], inds |-> pair_s[1]]

\* fields(site): ikron(bz * Sz, dims, inds=[site])
fields(site, field) ==
    [kind |-> "field", coef |-> field, op |-> "z", inds |-> <<site>>]

\* "bz > 0.0" in the place of "bz != 0.0"
FieldTermsPositive(ss, field) ==
    IF field > 0 THEN [k \in 1..Len(ss) |-> fields(ss[k], field)] ELSE <<>>

\* map(fields, sites) if bz != 0.0 else ()
FieldTerms(ss, field) ==
    IF field # 0 THEN [k \in 1..Len(ss) |-> fields(ss[k], field)] ELSE <<>>

\* all_terms = itertools.chain(map(interactions, pairs_ss), map(fields, sites) ...)
AllTerms(pss, ss, coupling, field) ==
    Chain([k \in 1..Len(pss) |-> interactions(pss[k], coupling)], FieldTerms(ss, field))

\* "for i, j, in sites" with j declared nonlocal: the loop writes the enclosing j
EnclosingJNonlocal(coupling, column) == column

\* "for i, j, in sites" binds gen_pairs' own local j: the j of ham_heis_2D, which
\* interactions reads, is left as it was
EnclosingJ(coupling, column) == coupling

\* a term has real entries unless it holds an odd number of Sy factors
IsRealTerm(term) == ~(term.op = "y" /\ Len(term.inds) % 2 = 1)

\* isreal(H): j and bz are real, so H is real when every term summed is
isreal(h) == \A k \in 1..Len(h) : IsRealTerm(h[k])

NoFrame ==
    /\ n = 0 /\ m = 0 /\ j = 0 /\ bz = 0 /\ cyclic = FALSE /\ sparse = FALSE
    /\ dims = <<>> /\ sites = <<>> /\ gen = [idx |-> 0, i |-> 0, j |-> 0]
    /\ pairs = <<>> /\ pairs_ss = <<>> /\ H = <<>>
    /\ ret = [kind |-> "none", terms |-> <<>>, reduced |-> FALSE]

NoGlobals ==
    /\ cell = 0
    /\ g = [n |-> 0, m |-> 0, dims |-> <<>>, H |-> [kind |-> "none", terms |-> <<>>, added |-> <<>>],
            gs |-> FALSE, target |-> <<>>]
    /\ names = {}
    /\ out = <<>>
    /\ Sz_ij = <<>> /\ m_ij = <<>> /\ rho_ab_ij = <<>> /\ mi_ij = <<>> /\ cy_ij = <<>>

\* lines 33-36: dims and sites
Setup ==
    /\ pc = "setup"
    /\ dims' = MakeDims(n, m)
    /\ sites' = MakeSites(n, m)
    /\ pc' = "gen_pairs"
    /\ UNCHANGED <<n, m, j, bz, cyclic, sparse, gen, pairs, pairs_ss, H, ret>>
    /\ UNCHANGED nbvars

\* lines 39-46: one iteration of "for i, j, in sites" inside gen_pairs
GenPairsNext ==
    /\ pc = "gen_pairs"
    /\ gen.idx < Len(sites)
    /\ LET site == sites[gen.idx + 1]
       IN  /\ gen' = [idx |-> gen.idx + 1, i |-> site[1], j |-> site[2]]
           /\ pairs' = pairs \o GenPairsBody(site, n, m, cyclic)
           /\ j' = EnclosingJ(j, site[2])
    /\ UNCHANGED <<pc, n, m, bz, cyclic, sparse, dims, sites, pairs_ss, H, ret>>
    /\ UNCHANGED nbvars

\* line 49: gen_pairs is exhausted and the product with 'xyz' is made a tuple
MakePairsSS ==
    /\ pc = "gen_pairs"
    /\ gen.idx = Len(sites)
    /\ pairs_ss' = Product(pairs, Directions)
    /\ pc' = "sum"
    /\ UNCHANGED <<n, m, j, bz, cyclic, sparse, dims, sites, gen, pairs, H, ret>>
    /\ UNCHANGED nbvars

\* lines 64-66: sum() takes the next term of the chain and adds it
SumNext ==
    /\ pc = "sum"
    /\ LET all_terms == AllTerms(pairs_ss, sites, j, bz)
       IN  /\ Len(H) < Len(all_terms)
           /\ H' = Append(H, all_terms[Len(H) + 1])
    /\ UNCHANGED <<pc, n, m, j, bz, cyclic, sparse, dims, sites, gen, pairs, pairs_ss, ret>>
    /\ UNCHANGED nbvars

\* lines 66-75: the chain is exhausted; post-processing and return.  sum() of no
\* term is the integer 0, which has no attribute A; H.real is taken if isreal(H)
Return ==
    /\ pc = "sum"
    /\ Len(H) = Len(AllTerms(pairs_ss, sites, j, bz))
    /\ ret' = [kind |-> IF sparse THEN (IF H = <<>> THEN "int" ELSE "sparse")
                        ELSE (IF H = <<>> THEN "AttributeError" ELSE "dense"),
               terms |-> H,
               reduced |-> isreal(H)]
    /\ pc' = "return"
    /\ UNCHANGED <<n, m, j, bz, cyclic, sparse, dims, sites, gen, pairs, pairs_ss, H>>
    /\ UNCHANGED nbvars

\* ------------------------------------------------------- notebook cells
\* cells 2 and 3 run in the other order
ExecutionCount2DSwapped == <<1, 3, 2, 4, 5, 6, 7, 8, 9, 10, 11, 12>>

\* the execution_count recorded for each code cell of ex_2d.ipynb, in file order
ExecutionCount2D == <<1, 2, 3, 4, 5, 6, 7, 8, 9, 10, 11, 12>>

\* the global names the k-th code cell of ex_2d.ipynb reads
Uses2D(k) ==
    CASE k = 1 -> {}
      [] k = 2 -> {}
      [] k = 3 -> {"ham_heis_2D", "n", "m", "itertools", "spin_operator", "ikron",
                   "isreal", "qarray"}
      [] k = 4 -> {"H", "ikron", "spin_operator", "dims"}
      [] k = 5 -> {"eigh", "H"}
      [] k = 6 -> {"ge"}
      [] k = 7 -> {"spin_operator", "ikron", "dims", "n", "m"}
      [] k = 8 -> {"expec", "Sz_ij", "gs", "n", "m"}
      [] k = 9 -> {"partial_trace", "gs", "dims", "n", "m"}
      [] k = 10 -> {"mutinf", "purify", "rho_ab_ij", "target", "n", "m", "plt"}
      [] k = 11 -> {"spin_operator", "correlation"}
      [] k = 12 -> {"z_corr", "purify", "rho_ab_ij", "target", "n", "m", "plt"}

\* the global names the k-th code cell of ex_2d.ipynb binds ("from quimb import *"
\* binds the library's names, of which the notebook uses the ones listed)
Defs2D(k) ==
    CASE k = 1 -> {"itertools", "add", "np", "ham_heis_2D", "spin_operator", "ikron",
                   "isreal", "qarray", "eigh", "expec", "partial_trace", "purify",
                   "mutinf", "correlation"}
      [] k = 2 -> {"n", "m", "dims", "row"}
      [] k = 3 -> {"H"}
      [] k = 4 -> {"H"}
      [] k = 5 -> {"ge", "gs"}
      [] k = 6 -> {}
      [] k = 7 -> {"Sz", "Sz_ij"}
      [] k = 8 -> {"m_ij", "plt"}
      [] k = 9 -> {"target", "rho_ab_ij"}
      [] k = 10 -> {"mi_ij"}
      [] k = 11 -> {"Sy", "z_corr"}
      [] k = 12 -> {"cy_ij"}

\* the namespace after a cell that reads uses and binds defs: a name read before
\* any cell bound it raises NameError
RunCell(ns, uses, defs) ==
    IF uses \subseteq ns THEN ns \cup defs ELSE ns \cup {"NameError"}

\* the kernel runs the cells in the order of their execution counts
CellStart(k) == notebook = "ex_2d" /\ cell = ExecutionCount2D[k] - 1 /\ pc = "idle"

\* cell 1: the imports and the definition of ham_heis_2D
Cell1 ==
    /\ CellStart(1)
    /\ cell' = 1
    /\ names' = RunCell(names, Uses2D(1), Defs2D(1))
    /\ UNCHANGED <<g, out>> /\ UNCHANGED gridvars /\ UNCHANGED fvars /\ UNCHANGED tvars

\* cell 2: n, m = 4, 5; dims = [[2] * m] * n; every row is printed
Cell2 ==
    /\ CellStart(2)
    /\ cell' = 2
    /\ g' = [g EXCEPT !.n = NbN, !.m = NbM, !.dims = MakeDims(NbN, NbM)]
    /\ out' = [k \in 1..Len(g'.dims) |-> g'.dims[k]]
    /\ names' = RunCell(names, Uses2D(2), Defs2D(2))
    /\ UNCHANGED gridvars /\ UNCHANGED fvars /\ UNCHANGED tvars

\* cell 3, the call: H = ham_heis_2D(n, m, cyclic=False), the rest by default
Cell3Call ==
    /\ CellStart(3)
    /\ n' = g.n /\ m' = g.m
    /\ j' = 1 /\ bz' = 0 /\ cyclic' = FALSE /\ sparse' = TRUE
    /\ pc' = "setup"
    /\ UNCHANGED <<dims, sites, gen, pairs, pairs_ss, H, ret>>
    /\ UNCHANGED nbvars

\* cell 3, the return: H is bound and the function's frame is gone
Cell3Return ==
    /\ notebook = "ex_2d" /\ cell = ExecutionCount2D[3] - 1 /\ pc = "return"
    /\ cell' = 3
    /\ g' = [g EXCEPT !.H = [kind |-> ret.kind, terms |-> ret.terms, added |-> <<>>]]
    /\ names' = RunCell(names, Uses2D(3), Defs2D(3))
    /\ pc' = "idle"
    /\ n' = 0 /\ m' = 0 /\ j' = 0 /\ bz' = 0 /\ cyclic' = FALSE /\ sparse' = FALSE
    /\ dims' = <<>> /\ sites' = <<>> /\ gen' = [idx |-> 0, i |-> 0, j |-> 0]
    /\ pairs' = <<>> /\ pairs_ss' = <<>> /\ H' = <<>>
    /\ ret' = [kind |-> "none", terms |-> <<>>, reduced |-> FALSE]
    /\ UNCHANGED out /\ UNCHANGED gridvars /\ UNCHANGED tvars

\* cell 4: H = H + 0.2 * ikron(spin_operator('Z', sparse=True), dims, [(1, 2)])
SymmetryBreaking(d) ==
    [num |-> 2, den |-> 10, op |-> "Z", dims |-> d, inds |-> <<FieldSite>>]

Cell4 ==
    /\ CellStart(4)
    /\ cell' = 4
    /\ names' = RunCell(names, Uses2D(4), Defs2D(4))
    /\ g' = [g EXCEPT !.H.added = Append(@, SymmetryBreaking(g.dims))]
    /\ UNCHANGED out /\ UNCHANGED gridvars /\ UNCHANGED fvars /\ UNCHANGED tvars

\* cell 5: ge, gs = eigh(H, k=1)
Cell5 ==
    /\ CellStart(5)
    /\ cell' = 5
    /\ g' = [g EXCEPT !.gs = TRUE]
    /\ names' = RunCell(names, Uses2D(5), Defs2D(5))
    /\ UNCHANGED out /\ UNCHANGED gridvars /\ UNCHANGED fvars /\ UNCHANGED tvars

\* cell 6: ge[0]
Cell6 ==
    /\ CellStart(6)
    /\ cell' = 6
    /\ names' = RunCell(names, Uses2D(6), Defs2D(6))
    /\ UNCHANGED <<g, out>> /\ UNCHANGED gridvars /\ UNCHANGED fvars /\ UNCHANGED tvars

\* cell 7: ikron(Sz, dims, [(i, j)])
SzEntry(i, jj) == [op |-> "Z", inds |-> <<<<i, jj>>>>]

\* the two ranges exchanged: for j in range(n), for i in range(m)
MakeSzTransposed(rows, cols) ==
    [r \in 1..cols |-> [c \in 1..rows |-> SzEntry(Range(cols)[r], Range(rows)[c])]]

\* cell 7: Sz_ij = [[ikron(Sz, dims, [(i, j)]) for j in range(m)] for i in range(n)]
MakeSz(rows, cols) ==
    [r \in 1..rows |-> [c \in 1..cols |-> SzEntry(Range(rows)[r], Range(cols)[c])]]

Cell7 ==
    /\ CellStart(7)
    /\ cell' = 7
    /\ Sz_ij' = MakeSz(g.n, g.m)
    /\ names' = RunCell(names, Uses2D(7), Defs2D(7))
    /\ UNCHANGED <<g, out, m_ij, rho_ab_ij, mi_ij, cy_ij>> /\ UNCHANGED fvars /\ UNCHANGED tvars

\* cell 8: m_ij = [[expec(Sz_ij[i][j], gs) for j in range(m)] for i in range(n)]
MakeMag(sz, rows, cols) ==
    [r \in 1..rows |-> [c \in 1..cols |->
        LET i == Range(rows)[r]
            jj == Range(cols)[c]
        IN  [op |-> sz[i + 1][jj + 1], state |-> "gs"]]]

Cell8 ==
    /\ CellStart(8)
    /\ cell' = 8
    /\ m_ij' = MakeMag(Sz_ij, g.n, g.m)
    /\ names' = RunCell(names, Uses2D(8), Defs2D(8))
    /\ UNCHANGED <<g, out, Sz_ij, rho_ab_ij, mi_ij, cy_ij>> /\ UNCHANGED fvars /\ UNCHANGED tvars

\* cell 9: partial_trace(gs, dims=dims, keep=[target, (i, j)]) for every (i, j)
MakeRho(target, rows, cols) ==
    [r \in 1..rows |-> [c \in 1..cols |->
        LET i == Range(rows)[r]
            jj == Range(cols)[c]
        IN  [state |-> "gs", keep |-> <<target, <<i, jj>>>>]]]

Cell9 ==
    /\ CellStart(9)
    /\ cell' = 9
    /\ g' = [g EXCEPT !.target = TargetSite]
    /\ rho_ab_ij' = MakeRho(g'.target, g.n, g.m)
    /\ names' = RunCell(names, Uses2D(9), Defs2D(9))
    /\ UNCHANGED <<out, Sz_ij, m_ij, mi_ij, cy_ij>> /\ UNCHANGED fvars /\ UNCHANGED tvars

\* the conditional inverted: purify everywhere but at the target
PurifiedInverted(site, target) == site # target

\* cells 10 and 12: "rho_ab_ij[i][j] if (i, j) != target else purify(rho_ab_ij[i][j])"
\* TRUE when the argument of the measure is purified
Purified(site, target) == ~(site # target)

\* cells 10 and 12: the measure applied at every (i, j)
MakeMeasure(measure, rho, target, rows, cols) ==
    [r \in 1..rows |-> [c \in 1..cols |->
        LET i == Range(rows)[r]
            jj == Range(cols)[c]
        IN  [measure |-> measure,
             purify |-> Purified(<<i, jj>>, target),
             rho |-> rho[i + 1][jj + 1]]]]

\* cell 10: mi_ij
Cell10 ==
    /\ CellStart(10)
    /\ cell' = 10
    /\ mi_ij' = MakeMeasure("mutinf", rho_ab_ij, g.target, g.n, g.m)
    /\ names' = RunCell(names, Uses2D(10), Defs2D(10))
    /\ UNCHANGED <<g, out, Sz_ij, m_ij, rho_ab_ij, cy_ij>> /\ UNCHANGED fvars /\ UNCHANGED tvars

\* cell 11: Sy and z_corr
Cell11 ==
    /\ CellStart(11)
    /\ cell' = 11
    /\ names' = RunCell(names, Uses2D(11), Defs2D(11))
    /\ UNCHANGED <<g, out>> /\ UNCHANGED gridvars /\ UNCHANGED fvars /\ UNCHANGED tvars

\* cell 12: cy_ij
Cell12 ==
    /\ CellStart(12)
    /\ cell' = 12
    /\ cy_ij' = MakeMeasure("z_corr", rho_ab_ij, g.target, g.n, g.m)
    /\ names' = RunCell(names, Uses2D(12), Defs2D(12))
    /\ UNCHANGED <<g, out, Sz_ij, m_ij, rho_ab_ij, mi_ij>> /\ UNCHANGED fvars /\ UNCHANGED tvars

\* ------------------------------------- ex_torch_optimize_pbc_mps.ipynb
\* Numbers are exact: a rational is <<numerator, denominator>> in lowest terms
\* with a positive denominator.  A state (the MPS, the target) is the vector v
\* divided by the square root of the rational q; the optimizer's update of the
\* parameters is any v of Vectors.
RECURSIVE GCD(_, _)
GCD(a, b) == IF b = 0 THEN a ELSE GCD(b, a % b)

Abs(a) == IF a < 0 THEN -a ELSE a

Rat(a, b) ==
    LET d == GCD(Abs(a), Abs(b))
        sgn == IF b < 0 THEN -1 ELSE 1
    IN  <<sgn * (a \div d), sgn * (b \div d)>>

RatMul(x, y) == Rat(x[1] * y[1], x[2] * y[2])
RatDiv(x, y) == Rat(x[1] * y[2], x[2] * y[1])
RatNeg(x) == <<-x[1], x[2]>>

Dot(u, w) == u[1] * w[1] + u[2] * w[2]

\* the amplitudes a state's vector is drawn from
MaxAmp == 1
Vectors == {<<a, b>> : a \in 0..MaxAmp, b \in 0..MaxAmp} \ {<<0, 0>>}

\* cell 2: gs = qu.groundstate(H), a normalised state
GroundState == [v |-> <<1, 0>>, q |-> <<1, 1>>]

\* cell 2: L = 16
L == 16
\* cell 5: for t in range(1, 101)
LoopStart == 1
LoopStop == 101
\* cell 5: if t % 10 == 0
PrintEvery == 10

\* x @ x: the squared norm (v.v) / q
NormOf(x) == Rat(Dot(x.v, x.v) * x.q[2], x.q[1])

\* (x @ y)**2: the squared overlap (v.w)**2 / (q * r)
OverlapSq(x, y) ==
    Rat(Dot(x.v, y.v) * Dot(x.v, y.v) * x.q[2] * y.q[2], x.q[1] * y.q[1])

\* the overlap with the normalization left out
LossUnnormalized(x, y) == RatNeg(OverlapSq(x, y))

\* cell 5: loss = - (mps @ target)**2 / (mps @ mps)
Loss(x, y) == RatNeg(RatDiv(OverlapSq(x, y), NormOf(x)))

\* x /= r: the square root forgotten
DivNorm(x, r) == [x EXCEPT !.q = RatMul(@, RatMul(r, r))]

\* x /= r**0.5: the state divided by the square root of r
DivSqrt(x, r) == [x EXCEPT !.q = RatMul(@, r)]

\* the state scaled by the integer c
Scaled(x, c) == [x EXCEPT !.v = <<c * @[1], c * @[2]>>]

\* a numpy array as the library makes it
NumpyArray(id) == [id |-> id, kind |-> "numpy", requires_grad |-> FALSE, ver |-> 0]

\* torch.tensor(t), without requires_grad, in the place of cell 4's lambda
TorchTensorNoGrad(a, id, grad) ==
    [id |-> id, kind |-> "torch", requires_grad |-> FALSE, ver |-> a.ver]

\* torch.tensor(t) and torch.tensor(t, requires_grad=True): a new torch array
TorchTensor(a, id, grad) ==
    [id |-> id, kind |-> "torch", requires_grad |-> grad, ver |-> a.ver]

\* t.detach() alone in the place of cell 8's lambda
DetachOnly(a, id) ==
    [id |-> id, kind |-> "torch", requires_grad |-> FALSE, ver |-> a.ver]

\* t.detach().numpy(): a numpy array of the same numbers
DetachNumpy(a, id) ==
    [id |-> id, kind |-> "numpy", requires_grad |-> FALSE, ver |-> a.ver]

\* the kinds a tensor's data went through, a kind noted when it changes
Noted(hist, kind) ==
    IF hist # <<>> /\ hist[Len(hist)] = kind THEN hist ELSE Append(hist, kind)

KindOf(a) == IF a.kind = "torch" /\ a.requires_grad THEN "torch+grad" ELSE a.kind

\* the versions of the parameters of x, site by site
ParamVersion(x) == [k \in 1..Len(x.data) |-> x.data[k].ver]

\* the kinds of the data arrays of x
Kinds(x) == {x.data[k].kind : k \in 1..Len(x.data)}

\* the record of one contraction: where, with which backend, on what arrays
Contraction(cellno, expr, state) ==
    [cell |-> cellno, expr |-> expr, backend |-> state.backend,
     mps |-> Kinds(state.mps), target |-> Kinds(state.target)]

\* qtn.set_contract_backend left at the library's default
ContractBackendDefault == "numpy"

\* cell 1: qtn.set_contract_backend('torch')
ContractBackend == "torch"

\* the parameter list with the target's array added
ParamListWithTarget(state) ==
    [k \in 1..Len(state.mps.data) |-> state.mps.data[k].id]
        \o <<state.target.data[1].id>>

\* cell 5: [t.data for t in mps]
ParamList(state) == [k \in 1..Len(state.mps.data) |-> state.mps.data[k].id]

\* the statements of the loop body with backward before zero_grad
AfterBackwardFirst(stmt) ==
    CASE stmt = "loss" -> "backward"
      [] stmt = "backward" -> "zero_grad"
      [] stmt = "zero_grad" -> "step"
      [] stmt = "step" -> "print"
      [] stmt = "print" -> "for"

\* cell 5: the statement that follows stmt in the loop body
After(stmt) ==
    CASE stmt = "loss" -> "zero_grad"
      [] stmt = "zero_grad" -> "backward"
      [] stmt = "backward" -> "step"
      [] stmt = "step" -> "print"
      [] stmt = "print" -> "for"

\* range(1, 100): one round short
InRangeShort(x) == x >= LoopStart /\ x < LoopStop - 1

\* cell 5: x is a value of range(1, 101)
InRange(x) == x >= LoopStart /\ x < LoopStop

\* "if t % 10 == 1"
PrintsAtOne(round) == round % PrintEvery = 1

\* cell 5: if t % 10 == 0
Prints(round) == round % PrintEvery = 0

\* the execution_count recorded for each code cell, in file order
ExecutionCountT == <<1, 2, 3, 4, 5, 6, 7, 8, 9>>

\* the global names the k-th code cell reads
UsesT(k) ==
    CASE k = 1 -> {}
      [] k = 2 -> {"qu"}
      [] k = 3 -> {"qtn", "gs", "torch"}
      [] k = 4 -> {"qtn", "L", "torch"}
      [] k = 5 -> {"torch", "mps", "target"}
      [] k = 6 -> {"mps"}
      [] k = 7 -> {"mps", "target"}
      [] k = 8 -> {"mps"}
      [] k = 9 -> {"mps"}

\* the global names the k-th code cell binds
DefsT(k) ==
    CASE k = 1 -> {"torch", "qu", "qtn"}
      [] k = 2 -> {"L", "H", "gs"}
      [] k = 3 -> {"target"}
      [] k = 4 -> {"bond_dim", "mps"}
      [] k = 5 -> {"optimizer", "t", "loss"}
      [] k = 6 -> {}
      [] k = 7 -> {}
      [] k = 8 -> {}
      [] k = 9 -> {}

NoState == [data |-> <<>>, hist |-> <<>>, v |-> <<0, 0>>, q |-> <<1, 1>>]

NoTorch ==
    /\ tpc = "idle"
    /\ tn = [backend |-> ContractBackendDefault, L |-> 0, H |-> FALSE, gs |-> FALSE,
             target |-> NoState, mps |-> NoState,
             optimizer |-> [made |-> FALSE, params |-> <<>>, steps |-> 0,
                            last_grad |-> <<>>],
             t |-> 0, loss |-> [round |-> 0, ver |-> <<>>, val |-> <<0, 1>>],
             grad |-> <<>>, events |-> <<>>, contractions |-> {},
             norm |-> <<0, 1>>, overlap |-> <<0, 1>>, shown |-> "none",
             next_id |-> 1]

exvars == <<pc, n, m, j, bz, cyclic, sparse, dims, sites, gen, pairs, pairs_ss, H, ret,
            g, Sz_ij, m_ij, rho_ab_ij, mi_ij, cy_ij>>

TCellStart(k) == notebook = "torch" /\ cell = ExecutionCountT[k] - 1 /\ tpc = "idle"

\* what every cell between its first and last statement does to the kernel
TCellDone(k) ==
    /\ cell' = k
    /\ names' = RunCell(names, UsesT(k), DefsT(k))
    /\ UNCHANGED <<notebook, exvars>>

\* cell 1: the imports and qtn.set_contract_backend('torch')
TCell1 ==
    /\ TCellStart(1)
    /\ tn' = [tn EXCEPT !.backend = ContractBackend]
    /\ TCellDone(1)
    /\ UNCHANGED <<tpc, out>>

\* cell 2: L = 16; H = qu.ham_heis(L, sparse=True, cyclic=True); gs = qu.groundstate(H)
TCell2 ==
    /\ TCellStart(2)
    /\ tn' = [tn EXCEPT !.L = L, !.H = TRUE, !.gs = TRUE]
    /\ TCellDone(2)
    /\ UNCHANGED <<tpc, out>>

\* cell 3: target = qtn.Dense1D(gs); target.apply_to_arrays(torch.tensor)
TCell3 ==
    /\ TCellStart(3)
    /\ LET dense == NumpyArray(tn.next_id)
           arr == TorchTensor(dense, tn.next_id + 1, FALSE)
       IN  tn' = [tn EXCEPT
                    !.target = [data |-> <<arr>>,
                                hist |-> Noted(<<KindOf(dense)>>, KindOf(arr)),
                                v |-> GroundState.v, q |-> GroundState.q],
                    !.next_id = @ + 2]
    /\ TCellDone(3)
    /\ UNCHANGED <<tpc, out>>

\* cell 4: mps = qtn.MPS_rand_state(L, bond_dim, cyclic=True), one tensor per site;
\* mps.apply_to_arrays(lambda t: torch.tensor(t, requires_grad=True))
TCell4 ==
    /\ TCellStart(4)
    /\ \E w \in Vectors :
          LET rand == [k \in 1..tn.L |-> NumpyArray(tn.next_id + k - 1)]
              data == [k \in 1..tn.L |-> TorchTensor(rand[k], tn.next_id + tn.L + k - 1, TRUE)]
          IN  tn' = [tn EXCEPT
                       !.mps = [data |-> data,
                                hist |-> [k \in 1..tn.L |->
                                             Noted(<<KindOf(rand[k])>>, KindOf(data[k]))],
                                v |-> w, q |-> <<1, 1>>],
                       !.next_id = @ + 2 * tn.L]
    /\ TCellDone(4)
    /\ UNCHANGED <<tpc, out>>

\* cell 5: optimizer = torch.optim.Adam([t.data for t in mps], lr=0.01)
MakeOptimizer ==
    /\ TCellStart(5)
    /\ tn' = [tn EXCEPT !.optimizer = [made |-> TRUE, params |-> ParamList(tn),
                                       steps |-> 0, last_grad |-> <<>>],
                        !.t = LoopStart - 1]
    /\ tpc' = "for"
    /\ UNCHANGED <<cell, names, out, notebook, exvars>>

\* cell 5: "for t in range(1, 101)" takes the next value
ForNext ==
    /\ notebook = "torch" /\ tpc = "for"
    /\ InRange(tn.t + 1)
    /\ tn' = [tn EXCEPT !.t = @ + 1, !.events = <<>>]
    /\ tpc' = "loss"
    /\ UNCHANGED <<cell, names, out, notebook, exvars>>

\* cell 5: the range is exhausted and the cell ends
ForExit ==
    /\ notebook = "torch" /\ tpc = "for"
    /\ ~InRange(tn.t + 1)
    /\ tpc' = "idle"
    /\ TCellDone(5)
    /\ UNCHANGED <<tn, out>>

\* cell 5: loss = - (mps @ target)**2 / (mps @ mps)
LossStmt ==
    /\ notebook = "torch" /\ tpc = "loss"
    /\ tn' = [tn EXCEPT
                !.loss = [round |-> tn.t, ver |-> ParamVersion(tn.mps),
                          val |-> Loss(tn.mps, tn.target)],
                !.contractions = @ \cup {Contraction(5, "mps @ target", tn),
                                         Contraction(5, "mps @ mps", tn)},
                !.events = Append(@, "loss")]
    /\ tpc' = After("loss")
    /\ UNCHANGED <<cell, names, out, notebook, exvars>>

\* cell 5: optimizer.zero_grad()
ZeroGrad ==
    /\ notebook = "torch" /\ tpc = "zero_grad"
    /\ tn' = [tn EXCEPT !.grad = <<>>, !.events = Append(@, "zero_grad")]
    /\ tpc' = After("zero_grad")
    /\ UNCHANGED <<cell, names, out, notebook, exvars>>

\* cell 5: loss.backward() adds the gradient of this loss to what is there
Backward ==
    /\ notebook = "torch" /\ tpc = "backward"
    /\ tn' = [tn EXCEPT !.grad = Append(@, tn.loss.round),
                        !.events = Append(@, "backward")]
    /\ tpc' = After("backward")
    /\ UNCHANGED <<cell, names, out, notebook, exvars>>

\* the arrays of the parameter list that carry a gradient are updated in place
Updated(data, params, grad) ==
    [k \in 1..Len(data) |->
        IF /\ grad # <<>>
           /\ data[k].requires_grad
           /\ \E p \in 1..Len(params) : params[p] = data[k].id
        THEN [data[k] EXCEPT !.ver = @ + 1]
        ELSE data[k]]

\* cell 5: optimizer.step(); what the update makes of the state is not computed
\* here, any vector may result
Step ==
    /\ notebook = "torch" /\ tpc = "step"
    /\ \E w \in Vectors :
          LET data == Updated(tn.mps.data, tn.optimizer.params, tn.grad)
          IN  tn' = [tn EXCEPT
                       !.mps.data = data,
                       !.mps.v = IF data = tn.mps.data THEN @ ELSE w,
                       !.optimizer.steps = @ + 1,
                       !.optimizer.last_grad = tn.grad,
                       !.events = Append(@, "step")]
    /\ tpc' = After("step")
    /\ UNCHANGED <<cell, names, out, notebook, exvars>>

\* cell 5: if t % 10 == 0: print(f"round: {t}, loss: {loss.item()}")
PrintStmt ==
    /\ notebook = "torch" /\ tpc = "print"
    /\ out' = IF Prints(tn.t)
              THEN Append(out, [round |-> tn.t, loss |-> [round |-> tn.loss.round,
                                                         ver |-> tn.loss.ver]])
              ELSE out
    /\ tpc' = After("print")
    /\ UNCHANGED <<cell, names, tn, notebook, exvars>>

\* cell 6: mps /= (mps @ mps)**0.5; mps @ mps
TCell6 ==
    /\ TCellStart(6)
    /\ LET divided == DivSqrt(tn.mps, NormOf(tn.mps))
           data == [k \in 1..Len(tn.mps.data) |->
                       [tn.mps.data[k] EXCEPT !.id = tn.next_id + k - 1]]
           after == [tn EXCEPT !.mps = [divided EXCEPT !.data = data],
                               !.next_id = @ + Len(data)]
       IN  tn' = [after EXCEPT
                    !.norm = NormOf(after.mps),
                    !.contractions = @ \cup {Contraction(6, "mps @ mps", tn),
                                             Contraction(6, "mps @ mps", after)}]
    /\ TCellDone(6)
    /\ UNCHANGED <<tpc, out>>

\* cell 7: (mps @ target)**2
TCell7 ==
    /\ TCellStart(7)
    /\ tn' = [tn EXCEPT !.overlap = OverlapSq(tn.mps, tn.target),
                        !.contractions = @ \cup {Contraction(7, "mps @ target", tn)}]
    /\ TCellDone(7)
    /\ UNCHANGED <<tpc, out>>

\* cell 8: mps.apply_to_arrays(lambda t: t.detach().numpy())
TCell8 ==
    /\ TCellStart(8)
    /\ LET data == [k \in 1..Len(tn.mps.data) |->
                       DetachNumpy(tn.mps.data[k], tn.next_id + k - 1)]
       IN  tn' = [tn EXCEPT
                    !.mps.data = data,
                    !.mps.hist = [k \in 1..Len(data) |-> Noted(@[k], KindOf(data[k]))],
                    !.next_id = @ + Len(data)]
    /\ TCellDone(8)
    /\ UNCHANGED <<tpc, out>>

\* cell 9: type(mps[4].data)
TCell9 ==
    /\ TCellStart(9)
    /\ tn' = [tn EXCEPT !.shown = tn.mps.data[4 + 1].kind]
    /\ TCellDone(9)
    /\ UNCHANGED <<tpc, out>>

\* ----------------------------------------------------------- specification
\* ham_heis_2D called with arguments drawn from the bounded sets
InitCall ==
    /\ NoGlobals
    /\ NoTorch
    /\ notebook = "none"
    /\ pc = "setup"
    /\ n \in 1..MaxN /\ m \in 1..MaxM
    /\ j \in JVals /\ bz \in BzVals
    /\ cyclic \in BOOLEAN /\ sparse \in BOOLEAN
    /\ dims = <<>> /\ sites = <<>> /\ gen = [idx |-> 0, i |-> 0, j |-> 0]
    /\ pairs = <<>> /\ pairs_ss = <<>> /\ H = <<>>
    /\ ret = [kind |-> "none", terms |-> <<>>, reduced |-> FALSE]

\* the notebook before its first cell has run
InitNotebook ==
    /\ NoGlobals
    /\ NoTorch
    /\ notebook = "ex_2d"
    /\ pc = "idle"
    /\ NoFrame

\* ex_torch_optimize_pbc_mps.ipynb before its first cell has run
InitTorch ==
    /\ NoGlobals
    /\ NoTorch
    /\ notebook = "torch"
    /\ pc = "idle"
    /\ NoFrame

Init == InitCall \/ InitNotebook

Next ==
    \/ Setup
    \/ GenPairsNext
    \/ MakePairsSS
    \/ SumNext
    \/ Return
    \/ Cell1
    \/ Cell2
    \/ Cell3Call
    \/ Cell3Return
    \/ Cell4
    \/ Cell5
    \/ Cell6
    \/ Cell7
    \/ Cell8
    \/ Cell9
    \/ Cell10
    \/ Cell11
    \/ Cell12

Spec == Init /\ [][Next]_vars

TorchNext ==
    \/ TCell1
    \/ TCell2
    \/ TCell3
    \/ TCell4
    \/ MakeOptimizer
    \/ ForNext
    \/ ForExit
    \/ LossStmt
    \/ ZeroGrad
    \/ Backward
    \/ Step
    \/ PrintStmt
    \/ TCell6
    \/ TCell7
    \/ TCell8
    \/ TCell9

\* ex_torch_optimize_pbc_mps.ipynb run from top to bottom
SpecOpt == InitTorch /\ [][TorchNext]_vars

\* either notebook run from top to bottom
SpecNotebooks == (InitNotebook \/ InitTorch) /\ [][Next \/ TorchNext]_vars

\* ------------------------------------------------------------------ claims
\* the valid index pairs (i, j) of a nested list: d[i][j] exists
ValidIndex(d, s) ==
    /\ s[1] >= 0 /\ s[1] < Len(d)
    /\ s[2] >= 0 /\ s[2] < Len(d[s[1] + 1])

\* how often x occurs in the list lst
Count(lst, x) == Cardinality({k \in 1..Len(lst) : lst[k] = x})

\* gen_pairs has run to its end
GenDone == pc \in {"sum", "return"}

\* the sites of the n x m lattice
Lattice == {<<r, c>> : r \in 0..(n - 1), c \in 0..(m - 1)}

\* C1: with cyclic = False every pair gen_pairs yields is ((i, j), (i+1, j)) with
\* i+1 <= n-1 or ((i, j), (i, j+1)) with j+1 <= m-1, and in no yielded pair is
\* the coordinate that changed 0 in the second site.
C1_NoWraparound ==
    ~cyclic =>
        \A k \in 1..Len(pairs) :
            LET a == pairs[k][1]
                b == pairs[k][2]
            IN  /\ \/ (b = <<a[1] + 1, a[2]>> /\ a[1] + 1 <= n - 1)
                   \/ (b = <<a[1], a[2] + 1>> /\ a[2] + 1 <= m - 1)
                /\ (b[1] # a[1] => b[1] # 0)
                /\ (b[2] # a[2] => b[2] # 0)

\* an open 2 x 3 lattice whose generator has passed the last row and column
C1_Witness ==
    ~cyclic /\ GenDone /\ n = 2 /\ m = 3 /\ gen.idx = 6 /\ Len(pairs) = 7

\* C2: with cyclic = True gen_pairs yields, for every site (i, j), both
\* ((i, j), ((i+1) mod n, j)) and ((i, j), (i, (j+1) mod m)), so the last row and
\* column connect back to the first, and it yields exactly 2*n*m pairs.
C2_CyclicPairs ==
    (cyclic /\ GenDone) =>
        /\ \A s \in Lattice :
            /\ \E k \in 1..Len(pairs) : pairs[k] = <<s, <<(s[1] + 1) % n, s[2]>>>>
            /\ \E k \in 1..Len(pairs) : pairs[k] = <<s, <<s[1], (s[2] + 1) % m>>>>
        /\ \A c \in 0..(m - 1) : \E k \in 1..Len(pairs) : pairs[k] = <<<<n - 1, c>>, <<0, c>>>>
        /\ \A r \in 0..(n - 1) : \E k \in 1..Len(pairs) : pairs[k] = <<<<r, m - 1>>, <<r, 0>>>>
        /\ Len(pairs) = 2 * n * m

\* a periodic 3 x 4 lattice, the wraparound bonds yielded
C2_Witness ==
    /\ cyclic /\ GenDone /\ n = 3 /\ m = 4
    /\ Count(pairs, <<<<2, 1>>, <<0, 1>>>>) = 1
    /\ Count(pairs, <<<<1, 3>>, <<1, 0>>>>) = 1

\* x and y are one step apart on a line of the given size (a ring when cyclic)
OneApart(x, y, size, cyc) ==
    IF cyc THEN y = (x + 1) % size \/ x = (y + 1) % size
    ELSE y = x + 1 \/ x = y + 1

\* C3: for both values of cyclic every yielded pair consists of two distinct sites
\* of range(n) x range(m) that differ in exactly one coordinate, by exactly 1
\* (modulo the lattice size in that direction when cyclic).
C3_Neighbouring ==
    \A k \in 1..Len(pairs) :
        LET a == pairs[k][1]
            b == pairs[k][2]
        IN  /\ a # b
            /\ a \in Lattice /\ b \in Lattice
            /\ \/ (a[2] = b[2] /\ a[1] # b[1] /\ OneApart(a[1], b[1], n, cyclic))
               \/ (a[1] = b[1] /\ a[2] # b[2] /\ OneApart(a[2], b[2], m, cyclic))

\* a and b are horizontally or vertically adjacent sites
AdjacentOpen(a, b) ==
    \/ (a[2] = b[2] /\ (a[1] = b[1] + 1 \/ b[1] = a[1] + 1))
    \/ (a[1] = b[1] /\ (a[2] = b[2] + 1 \/ b[2] = a[2] + 1))

\* C4: with cyclic = False gen_pairs yields every nearest-neighbour bond of the
\* open lattice exactly once: the yielded pairs are exactly the adjacent site
\* pairs, none twice, n*(m-1) + m*(n-1) of them (31 for n = 4, m = 5).
C4_OpenBondsOnce ==
    (~cyclic /\ GenDone) =>
        /\ \A a \in Lattice : \A b \in Lattice :
              AdjacentOpen(a, b) =>
                  \E k \in 1..Len(pairs) : {pairs[k][1], pairs[k][2]} = {a, b}
        /\ \A k \in 1..Len(pairs) :
              /\ pairs[k][1] \in Lattice /\ pairs[k][2] \in Lattice
              /\ AdjacentOpen(pairs[k][1], pairs[k][2])
        /\ \A k1 \in 1..Len(pairs) : \A k2 \in 1..Len(pairs) :
              {pairs[k1][1], pairs[k1][2]} = {pairs[k2][1], pairs[k2][2]} => k1 = k2
        /\ Len(pairs) = n * (m - 1) + m * (n - 1)
        /\ (n = 4 /\ m = 5) => Len(pairs) = 31

\* the notebook's call: the open 4 x 5 lattice and its 31 bonds
C4_Witness ==
    ~cyclic /\ GenDone /\ n = 4 /\ m = 5 /\ Len(pairs) = 31

\* the interaction terms summed so far
InteractionTerms == SelectSeq(H, LAMBDA t : t.kind = "interaction")

\* the field terms summed so far
FieldTermsOf(h) == SelectSeq(h, LAMBDA t : t.kind = "field")

C6_FieldsIffBz ==
    /\ \A p \in 1..Len(H) : \A q \in 1..Len(H) :
          (H[p].kind = "field" /\ H[q].kind = "interaction") => q < p
    /\ bz = 0 => FieldTermsOf(H) = <<>>
    /\ pc = "return" =>
          /\ (FieldTermsOf(H) # <<>>) <=> (bz # 0)
          /\ bz # 0 =>
                /\ Len(FieldTermsOf(H)) = n * m
                /\ \A s \in Lattice :
                      Count(H, [kind |-> "field", coef |-> bz, op |-> "z",
                                inds |-> <<s>>]) = 1
                /\ \A q \in 1..Len(FieldTermsOf(H)) :
                      /\ Len(FieldTermsOf(H)[q].inds) = 1
                      /\ FieldTermsOf(H)[q].inds[1] \in Lattice

\* a negative field on a 2 x 3 lattice: six field terms after the interactions
C6_Witness ==
    /\ pc = "return" /\ bz = -1 /\ n = 2 /\ m = 3
    /\ Len(FieldTermsOf(H)) = 6 /\ Len(InteractionTerms) > 0

\* the index pairs tried against a nested list
IndexUniverse == {<<r, c>> : r \in 0..(MaxN + 1), c \in 0..(MaxM + 1)}

\* d is a nested list of rows x cols entries, every entry 2
ShapeOf(d, rows, cols) ==
    /\ Len(d) = rows
    /\ \A r \in 1..Len(d) : Len(d[r]) = cols /\ \A c \in 1..Len(d[r]) : d[r][c] = 2

\* C7: dims = [[2] * m] * n has n rows of m entries, every entry 2, so the lattice
\* has n*m two-level sites (4 rows of 5, 20 qubits, in the notebook), and the site
\* coordinates of itertools.product(range(n), range(m)) are exactly the valid
\* (non-negative) index pairs into dims.
C7_DimsShape ==
    /\ pc \notin {"setup", "idle"} =>
          /\ ShapeOf(dims, n, m)
          /\ {sites[k] : k \in 1..Len(sites)} = {s \in IndexUniverse : ValidIndex(dims, s)}
          /\ Len(sites) = n * m
          /\ Cardinality({sites[k] : k \in 1..Len(sites)}) = n * m
    /\ cell >= 2 =>
          /\ g.n = 4 /\ g.m = 5
          /\ ShapeOf(g.dims, 4, 5)
          /\ Cardinality({s \in IndexUniverse : ValidIndex(g.dims, s)}) = 20
          /\ out = <<<<2, 2, 2, 2, 2>>, <<2, 2, 2, 2, 2>>, <<2, 2, 2, 2, 2>>, <<2, 2, 2, 2, 2>>>>

\* ham_heis_2D called on a 3 x 5 lattice, dims and sites made
C7_Witness ==
    pc = "gen_pairs" /\ n = 3 /\ m = 5 /\ Len(dims) = 3 /\ Len(sites) = 15

\* grid is a nested list of g.n rows and g.m columns
GridShape(grid) ==
    /\ Len(grid) = g.n
    /\ \A r \in 1..Len(grid) : Len(grid[r]) = g.m

\* the sites of the notebook's lattice
NbLattice == {<<r, c>> : r \in 0..(g.n - 1), c \in 0..(g.m - 1)}

\* C8: Sz_ij and m_ij are grids of n rows and m columns whose entry [i][j] is the Z
\* operator embedded at site (i, j) and at no other site (for m_ij its expectation
\* in gs), and every lattice site is covered exactly once.
C8_Magnetization ==
    /\ cell >= 7 =>
          /\ GridShape(Sz_ij)
          /\ \A s \in NbLattice :
                /\ Sz_ij[s[1] + 1][s[2] + 1] = [op |-> "Z", inds |-> <<s>>]
                /\ Cardinality({t \in NbLattice :
                                   Sz_ij[t[1] + 1][t[2] + 1].inds = <<s>>}) = 1
    /\ cell >= 8 =>
          /\ GridShape(m_ij)
          /\ g.gs
          /\ \A s \in NbLattice :
                /\ m_ij[s[1] + 1][s[2] + 1] =
                      [op |-> [op |-> "Z", inds |-> <<s>>], state |-> "gs"]
                /\ Cardinality({t \in NbLattice :
                                   m_ij[t[1] + 1][t[2] + 1].op.inds = <<s>>}) = 1

\* cell 8 has run: the magnetization of the last site (3, 4) is in the grid
C8_Witness ==
    /\ cell = 8 /\ Len(m_ij) = 4 /\ Len(m_ij[4]) = 5
    /\ m_ij[4][5].op.inds = <<<<3, 4>>>>

\* C9: the site (1, 2) that receives the 0.2 * Sz field is a valid site of the
\* 4 x 5 lattice and is the site target of partial_trace, and rho_ab_ij is an
\* n x m grid whose entry [i][j] is the reduced state keeping exactly target and
\* (i, j), for every site (i, j).
C9_TargetCorrelations ==
    /\ cell >= 4 =>
          /\ Len(g.H.added) = 1
          /\ g.H.added[1].num = 2 /\ g.H.added[1].den = 10
          /\ g.H.added[1].inds = <<<<1, 2>>>>
          /\ ShapeOf(g.H.added[1].dims, 4, 5)
          /\ ValidIndex(g.H.added[1].dims, g.H.added[1].inds[1])
    /\ cell >= 9 =>
          /\ g.target = g.H.added[1].inds[1]
          /\ GridShape(rho_ab_ij)
          /\ \A s \in NbLattice :
                LET keep == rho_ab_ij[s[1] + 1][s[2] + 1].keep
                IN  /\ {keep[k] : k \in 1..Len(keep)} = {g.target, s}
                    /\ Len(keep) = 2
                    /\ rho_ab_ij[s[1] + 1][s[2] + 1].state = "gs"

\* cell 9 has run: the field sits on the target and (3, 0) is paired with it
C9_Witness ==
    /\ cell = 9 /\ g.target = <<1, 2>> /\ g.H.added[1].inds[1] = <<1, 2>>
    /\ rho_ab_ij[4][1].keep = <<<<1, 2>>, <<3, 0>>>>

\* grid applies measure to rho_ab_ij[i][j], purified exactly at the target
MeasureGrid(grid, measure) ==
    /\ GridShape(grid)
    /\ \A s \in NbLattice :
          LET e == grid[s[1] + 1][s[2] + 1]
          IN  /\ e.measure = measure
              /\ e.rho = rho_ab_ij[s[1] + 1][s[2] + 1]
              /\ e.purify <=> (s = g.target)
    /\ Cardinality({s \in NbLattice : grid[s[1] + 1][s[2] + 1].purify}) = 1

\* C10: in both mi_ij and cy_ij the measure (mutinf, z_corr) is applied, for every
\* (i, j), to purify(rho_ab_ij[i][j]) if (i, j) == target and to rho_ab_ij[i][j]
\* unchanged otherwise: purify is applied for exactly one site in each grid.
C10_PurifyAtTarget ==
    /\ cell >= 10 => MeasureGrid(mi_ij, "mutinf")
    /\ cell >= 12 => MeasureGrid(cy_ij, "z_corr")

\* cell 12 has run: both grids purify at (1, 2) and not at (0, 0)
C10_Witness ==
    /\ cell = 12
    /\ mi_ij[2][3].purify /\ ~mi_ij[1][1].purify
    /\ cy_ij[2][3].purify /\ ~cy_ij[1][1].purify

\* ------------------------------ claims: ex_torch_optimize_pbc_mps.ipynb
\* the loop body of cell 5 is running
InBody == tpc \in {"loss", "zero_grad", "backward", "step", "print"}

\* this round's statement stmt has run
Ran(stmt) == \E k \in 1..Len(tn.events) : tn.events[k] = stmt

\* C11: the loop body runs for t = 1, 2, ..., 100 in increasing order, every
\* iteration calls optimizer.step() exactly once, and the loop ends with exactly
\* 100 parameter updates applied.
C11_HundredSteps ==
    notebook = "torch" =>
        /\ InBody => tn.t \in 1..100
        /\ InBody => tn.optimizer.steps = (IF Ran("step") THEN tn.t ELSE tn.t - 1)
        /\ InBody => Cardinality({k \in 1..Len(tn.events) : tn.events[k] = "step"}) <= 1
        /\ tpc = "for" => tn.optimizer.steps = tn.t /\ tn.t \in 0..100
        /\ tpc # "idle" => ENABLED TorchNext
        /\ tn.optimizer.made =>
              \A k \in 1..Len(tn.mps.data) : tn.mps.data[k].ver = tn.optimizer.steps
        /\ cell >= 5 =>
              /\ tn.t = 100
              /\ tn.optimizer.steps = 100
              /\ \A k \in 1..Len(tn.mps.data) : tn.mps.data[k].ver = 100

\* cell 5 has ended after its hundredth step
C11_Witness ==
    notebook = "torch" /\ cell = 5 /\ tpc = "idle" /\ tn.optimizer.steps = 100

\* s is an initial part of the list l
IsPrefix(s1, s2) == Len(s1) <= Len(s2) /\ \A k \in 1..Len(s1) : s1[k] = s2[k]

\* C12: in every iteration the order is loss, zero_grad, backward, step, and the
\* gradient step number t consumes is that of the loss of iteration t only, never
\* accumulated from earlier iterations.
C12_GradientOrder ==
    notebook = "torch" =>
        /\ IsPrefix(tn.events, <<"loss", "zero_grad", "backward", "step">>)
        /\ tn.optimizer.steps >= 1 => tn.optimizer.last_grad = <<tn.optimizer.steps>>
        /\ (InBody /\ Ran("backward")) => tn.grad = <<tn.t>> /\ tn.loss.round = tn.t
        /\ (InBody /\ Ran("zero_grad") /\ ~Ran("backward")) => tn.grad = <<>>

\* the second round's step has consumed the second round's gradient
C12_Witness ==
    /\ notebook = "torch" /\ tpc = "print" /\ tn.t = 2
    /\ tn.optimizer.steps = 2 /\ tn.optimizer.last_grad = <<2>>

\* the rounds whose print statement has been passed
RoundsDone == IF InBody THEN tn.t - 1 ELSE tn.t

\* C13: progress is printed exactly at the rounds that are multiples of 10: ten
\* lines, for rounds 10, 20, ..., 100 in increasing order, none for another round.
C13_PrintEveryTen ==
    notebook = "torch" =>
        /\ Len(out) = RoundsDone \div 10
        /\ \A k \in 1..Len(out) : out[k].round = 10 * k
        /\ cell >= 5 =>
              /\ Len(out) = 10
              /\ [k \in 1..10 |-> out[k].round] = <<10, 20, 30, 40, 50, 60, 70, 80, 90, 100>>

\* cell 5 has ended with its ten lines printed
C13_Witness ==
    notebook = "torch" /\ cell = 5 /\ Len(out) = 10 /\ out[10].round = 100

C15_OptimizerParameters ==
    (notebook = "torch" /\ tn.optimizer.made) =>
        LET params == tn.optimizer.params
        IN  /\ Len(params) = 16
            /\ Cardinality({params[k] : k \in 1..Len(params)}) = 16
            /\ \A k \in 1..Len(tn.target.data) :
                  /\ \A p \in 1..Len(params) : params[p] # tn.target.data[k].id
                  /\ ~tn.target.data[k].requires_grad
            /\ cell < 6 =>
                  /\ Len(tn.mps.data) = 16
                  /\ \A k \in 1..16 :
                        /\ params[k] = tn.mps.data[k].id
                        /\ tn.mps.data[k].kind = "torch"
                        /\ tn.mps.data[k].requires_grad

\* the optimizer has just been constructed
C15_Witness ==
    /\ notebook = "torch" /\ tpc = "for" /\ tn.t = 0 /\ tn.optimizer.made
    /\ Len(tn.optimizer.params) = 16

\* C16: set_contract_backend('torch') is executed before any contraction, and at
\* every contraction (mps @ target, mps @ mps) inside and after the loop every
\* data array of mps and of target is a torch tensor.
C16_TorchContractions ==
    notebook = "torch" =>
        /\ tn.contractions # {} => tn.backend = "torch"
        /\ \A c \in tn.contractions :
              /\ c.backend = "torch"
              /\ c.mps = {"torch"}
              /\ c.target = {"torch"}
        /\ cell >= 7 => {c.cell : c \in tn.contractions} = {5, 6, 7}

\* the loop, the normalisation and the overlap check have all contracted
C16_Witness ==
    /\ notebook = "torch" /\ cell = 7
    /\ \E c \in tn.contractions : c.cell = 5 /\ c.expr = "mps @ mps"
    /\ \E c \in tn.contractions : c.cell = 7 /\ c.expr = "mps @ target"

\* C17: after the final apply_to_arrays the data of every tensor of mps, all 16
\* sites, is a numpy array: each went numpy -> torch (with gradient) -> numpy.
C17_BackToNumpy ==
    notebook = "torch" =>
        /\ cell >= 8 =>
              /\ Len(tn.mps.data) = 16
              /\ \A k \in 1..16 :
                    /\ tn.mps.data[k].kind = "numpy"
                    /\ tn.mps.hist[k] = <<"numpy", "torch+grad", "numpy">>
        /\ (cell >= 4 /\ cell < 8) =>
              \A k \in 1..16 : tn.mps.hist[k] = <<"numpy", "torch+grad">>
        /\ cell >= 9 => tn.shown = "numpy"

\* cell 9 has shown the type of the data at site 4
C17_Witness ==
    /\ notebook = "torch" /\ cell = 9 /\ tn.shown = "numpy"
    /\ tn.mps.data[16].kind = "numpy"

\* the names bound by the first c cells of ex_2d.ipynb
BoundBy2D(c) == UNION {Defs2D(k) : k \in 1..c}

\* the names bound by the first c cells of ex_torch_optimize_pbc_mps.ipynb
BoundByT(c) == UNION {DefsT(k) : k \in 1..c}

\* C18: each notebook is a linear cell sequence: the recorded execution counts
\* are 1..12 (ex_2d) and 1..9 (torch) in file order, every name a cell reads is
\* bound by an earlier cell, the Hamiltonian is built before the solver is
\* called, the ground state exists before any observable or target is computed
\* from it, and the optimizer loop has run before the result is normalised.
C18_LinearCells ==
    /\ ExecutionCount2D = [k \in 1..12 |-> k]
    /\ ExecutionCountT = [k \in 1..9 |-> k]
    /\ "NameError" \notin names
    /\ notebook = "ex_2d" =>
          /\ cell \in 0..12
          /\ names = BoundBy2D(cell)
          /\ \A k \in 1..cell : Uses2D(k) \subseteq BoundBy2D(k - 1)
          /\ pc # "idle" => cell = 2
          /\ g.gs => (cell >= 5 /\ g.H.kind # "none" /\ Len(g.H.added) = 1)
          /\ (Sz_ij # <<>> \/ m_ij # <<>> \/ rho_ab_ij # <<>>) => g.gs
          /\ (mi_ij # <<>> \/ cy_ij # <<>>) => rho_ab_ij # <<>>
    /\ notebook = "torch" =>
          /\ cell \in 0..9
          /\ names = BoundByT(cell)
          /\ \A k \in 1..cell : UsesT(k) \subseteq BoundByT(k - 1)
          /\ tpc # "idle" => cell = 4
          /\ tn.gs => tn.H
          /\ tn.target.data # <<>> => tn.gs
          /\ tn.optimizer.made => (tn.mps.data # <<>> /\ tn.target.data # <<>>)
          /\ cell >= 6 => (tn.optimizer.steps = 100 /\ Len(out) = 10)

\* the last cell of ex_2d.ipynb has run
C18_Witness ==
    notebook = "ex_2d" /\ cell = 12 /\ "cy_ij" \in names /\ cy_ij # <<>>

\* the scalars the MPS is rescaled by
ScaleVals == {-2, -1, 2, 3}

\* C19: the loss is computed with normalization: rescaling the MPS by a nonzero
\* scalar c leaves the loss unchanged (the overlap scales by c, the norm by
\* c**2), and after mps /= (mps @ mps)**0.5 the norm mps @ mps is 1 and the loss
\* is what it was.
C19_NormalizedLoss ==
    (notebook = "torch" /\ tn.mps.data # <<>>) =>
        /\ \A c \in ScaleVals :
              /\ Loss(Scaled(tn.mps, c), tn.target) = Loss(tn.mps, tn.target)
              /\ Dot(Scaled(tn.mps, c).v, tn.target.v) = c * Dot(tn.mps.v, tn.target.v)
              /\ OverlapSq(Scaled(tn.mps, c), tn.target)
                    = RatMul(<<c * c, 1>>, OverlapSq(tn.mps, tn.target))
              /\ NormOf(Scaled(tn.mps, c)) = RatMul(<<c * c, 1>>, NormOf(tn.mps))
        /\ tn.loss.round >= 1 =>
              \E w \in Vectors :
                  tn.loss.val = Loss([tn.mps EXCEPT !.v = w], tn.target)
        /\ cell < 6 => tn.mps.q = <<1, 1>>
        /\ cell >= 6 =>
              /\ tn.norm = <<1, 1>>
              /\ NormOf(tn.mps) = <<1, 1>>
              /\ Loss(tn.mps, tn.target) = Loss([tn.mps EXCEPT !.q = <<1, 1>>], tn.target)

\* an MPS of squared norm 2 has been normalised
C19_Witness ==
    /\ notebook = "torch" /\ cell = 6
    /\ tn.mps.v = <<1, 1>> /\ tn.mps.q = <<2, 1>> /\ tn.norm = <<1, 1>>

\* ------------------------------------------------- claims: ham_heis_2D
\* C20: with cyclic = True gen_pairs yields no bond twice: no two yielded pairs
\* connect the same unordered pair of sites.
C20_NoBondTwice ==
    (cyclic /\ GenDone) =>
        \A k1 \in 1..Len(pairs) : \A k2 \in 1..Len(pairs) :
            {pairs[k1][1], pairs[k1][2]} = {pairs[k2][1], pairs[k2][2]} => k1 = k2

\* ham_heis_2D has returned (or raised)
Returned == pc = "return"

\* C21: for every n, m >= 1, every cyclic and every bz the term sequence summed
\* is non-empty, so H is an operator, not the integer 0 that sum gives for an
\* empty sequence, and H.real and H.A are applied to an operator.
C21_NonEmptySum ==
    Returned =>
        /\ AllTerms(pairs_ss, sites, j, bz) # <<>>
        /\ H # <<>>
        /\ ret.kind \in {"sparse", "dense"}

\* C22: the coupling of every interaction term is the parameter j, the same for
\* all bonds and directions: the loop variables i, j of gen_pairs never change
\* the j that interactions reads.
C22_CouplingIsParameter ==
    /\ [](\A k \in 1..Len(H) : H[k].kind = "interaction" => H[k].coef = j)
    /\ [](pc \in {"setup", "gen_pairs", "sum", "return"} => j \in JVals)
    /\ [][(pc \in {"setup", "gen_pairs", "sum"}) => (j' = j)]_vars

\* gen_pairs has ended with its own j different from the coupling, and the
\* interaction terms have been summed
C22_Witness ==
    /\ Returned /\ gen.idx = Len(sites) /\ gen.j = m - 1 /\ gen.j # j
    /\ Len(H) >= 6 /\ H[1].kind = "interaction" /\ H[1].coef = j

\* the pairs gen_pairs yields over all the sites from position k on, in order
RECURSIVE PairsFrom(_, _, _, _, _)
PairsFrom(ss, k, nn, mm, cyc) ==
    IF k > Len(ss) THEN <<>>
    ELSE GenPairsBody(ss[k], nn, mm, cyc) \o PairsFrom(ss, k + 1, nn, mm, cyc)

\* C23: ham_heis_2D returns a sparse operator when sparse is True and a dense
\* qarray when sparse is False, with the same terms in both cases (the pairs,
\* directions and field terms summed do not depend on sparse), and the real part
\* is taken only when isreal(H) holds.
C23_SparseFlagOnlyRepresentation ==
    Returned =>
        /\ ret.kind = (IF sparse THEN "sparse" ELSE "dense")
        /\ ret.terms = AllTerms(Product(PairsFrom(MakeSites(n, m), 1, n, m, cyclic), Directions),
                                MakeSites(n, m), j, bz)
        /\ ret.reduced => isreal(ret.terms)

====
